---- MODULE Spec2Model ----
(***************************************************************************)
(* bf8: a Brainfuck virtual machine with registers, relative jumps and     *)
(* opcodes forwarded over a bounded channel to a consumer (vm, main.go),   *)
(* and the assembler that generates Brainfuck text for it (bs).            *)
(*                                                                         *)
(* Memory is one byte array indexed from 0 as in the source: the code      *)
(* segment [0, dataStart) followed by the tape.  Bytes are 0..255, the     *)
(* instruction characters are their ASCII codes.                           *)
(***************************************************************************)
EXTENDS Integers, Sequences, FiniteSets, TLC

\* ------------------------------------------------------------------ bounds
MaxLen == 3        \* every input of at most this many bytes is loaded
TapeSize == 5      \* cells of the data segment (30_000 in NewProgram)
QueueCap == 2      \* capacity of opChan (256 in main)
TickLimit == 2     \* receives per System.Update (60 in System.Update)
MaxOps == 3        \* forwarding invokes followed per run
MaxToks == 4       \* every token sequence of at most this length is parsed
MaxStmts == 3      \* every statement sequence of at most this length is generated

\* --------------------------------------------------------- program constants
chRight == 62      \* '>'
chLeft == 60       \* '<'
chPlus == 43       \* '+'
chMinus == 45      \* '-'
chOpen == 91       \* '['
chClose == 93      \* ']'
chDot == 46        \* '.'
chComma == 44      \* ','
chSpace == 32      \* ' ', a byte that is no instruction

OpNop == 0
OpRelJmpFwd == 1
OpRelJmpBwd == 2
OpR8AStore == 20
OpR8BStore == 21
OpR16AStore == 22
OpR16BStore == 23
OpR32AStore == 24
OpR32BStore == 25
OpR8ALoad == 26
OpR8BLoad == 27
OpR16ALoad == 28
OpR16BLoad == 29
OpR32ALoad == 30
OpR32BLoad == 31

Pad == 10          \* dataStart := len(code) + 10
ArgsLen == 8       \* args [8]byte
RollMax == 255     \* AddRolling(.., amt, 255), SubRolling(.., amt, 255)

Instructions == {chRight, chLeft, chPlus, chMinus, chOpen, chClose, chDot, chComma}

\* ------------------------------------------------------------------ helpers
Rep(c, n) == [i \in 1..n |-> c]

\* Go's int-to-byte conversion keeps the low 8 bits (two's complement).
ToByte(n) == n % 256

\* Go's % on ints truncates toward zero: the result has the sign of n.
GoRem(n, m) == IF n >= 0 THEN n % m ELSE -((-n) % m)

AddRollingMod256(n, amt, max) == (n + amt) % 256

AddRolling(n, amt, max) == GoRem(n + amt, max)

SubRolling(n, amt, max) == GoRem(n - amt, max)

\* --------------------------------------------------------------- NewProgram
\* a validation that also rejects a loop-close with no loop open before it
BracketDepthNested(code) ==
    IF \E k \in DOMAIN code :
          Cardinality({i \in 1..k : code[i] = chClose})
          > Cardinality({i \in 1..k : code[i] = chOpen})
    THEN -1
    ELSE Cardinality({i \in DOMAIN code : code[i] = chOpen})
         - Cardinality({i \in DOMAIN code : code[i] = chClose})

\* the depth ValidateBrainfuck has counted after the last byte
BracketDepth(code) ==
    Cardinality({i \in DOMAIN code : code[i] = chOpen})
    - Cardinality({i \in DOMAIN code : code[i] = chClose})

ValidateBrainfuck(code) ==
    IF BracketDepth(code) # 0 THEN "ErrCodeBracketImbalance" ELSE "nil"

\* a load that keeps every byte of the input
FilterNothing(code) == code

\* bytes.Map dropping every byte that is no Brainfuck instruction
FilterCode(code) == SelectSeq(code, LAMBDA b : b \in Instructions)

NewMemory(code) ==
    [i \in 0..(Len(code) + Pad + TapeSize - 1) |->
        IF i < Len(code) THEN code[i + 1] ELSE 0]

\* ================================================================ assembler
\* Expressions: [t |-> "int", v], [t |-> "id", name], [t |-> "addr", e];
\* NoExpr is a nil operand.  Statements: [kind |-> "instr", name, dst, src]
\* and [kind |-> "label", name].
NoExpr == [t |-> "nil"]
ExprInt(v) == [t |-> "int", v |-> v]
ExprId(n) == [t |-> "id", name |-> n]
ExprAddr(e) == [t |-> "addr", e |-> e]
StmtInstr(name, dst, src) == [kind |-> "instr", name |-> name, dst |-> dst, src |-> src]
StmtLabel(name) == [kind |-> "label", name |-> name]

\* gen: sb the text written so far, ptr the virtual cursor, label the pending
\* label, labelTable, loopStarts; failed is set by a panic, which ends
\* generation without output.
NewGen ==
    [sb |-> <<>>, ptr |-> 0, label |-> "", labelTable |-> <<>>,
     loopStarts |-> <<>>, failed |-> FALSE]

GenFail(g) == [g EXCEPT !.failed = TRUE]

GenWrite(g, text) == [g EXCEPT !.sb = g.sb \o text]

\* expr.int(lookup): [fail, v, err]; an identifier is looked up and
\* evaluated in turn, an address panics. `seen` holds the identifiers whose
\* int() calls are on the stack: a second call for one of them has the same
\* receiver and the same table as the first, so the recursion never returns
\* and the goroutine's stack overflows.
RECURSIVE EvalFrom(_, _, _)
EvalFrom(e, table, seen) ==
    CASE e.t = "int" -> [fail |-> FALSE, v |-> e.v, err |-> "nil"]
      [] e.t = "id" ->
            IF e.name \notin DOMAIN table
            THEN [fail |-> TRUE, v |-> 0, err |-> "not defined"]
            ELSE IF e.name \in seen
            THEN [fail |-> TRUE, v |-> 0, err |-> "stack overflow"]
            ELSE EvalFrom(table[e.name], table, seen \cup {e.name})
      [] OTHER -> [fail |-> TRUE, v |-> 0, err |-> "cannot call int() on exprAddr"]

EvalInt(e, table) == EvalFrom(e, table, {})

\* point that steps right from cell 0 whatever the cursor is
GenPointFromStart(g, at) == [g EXCEPT !.sb = g.sb \o Rep(chRight, at), !.ptr = at]

GenPoint(g, at) ==
    LET diff == at - g.ptr
    IN  [g EXCEPT !.sb = g.sb \o (IF diff < 0 THEN Rep(chLeft, -diff)
                                  ELSE Rep(chRight, diff)),
                  !.ptr = at]

PushLoopStart(g, ptr) == [g EXCEPT !.loopStarts = Append(g.loopStarts, ptr)]

\* a pop that leaves the stack as it is
PopLoopStartKeeping(g) == g

\* popLoopStart on an empty stack indexes loopStarts[-1]: a panic
PopFails(g) == g.loopStarts = <<>>
PopValue(g) == g.loopStarts[Len(g.loopStarts)]
PopLoopStart(g) ==
    [g EXCEPT !.loopStarts = SubSeq(g.loopStarts, 1, Len(g.loopStarts) - 1)]

GenLoopStart(g) == GenWrite(PushLoopStart(g, g.ptr), <<chOpen>>)

GenLoopEnd(g) ==
    IF PopFails(g) THEN GenFail(g)
    ELSE GenWrite(GenPoint(PopLoopStart(g), PopValue(g)), <<chClose>>)

\* `if addr, ok := instr.dst.(exprAddr); ok { v, err := addr.expr.int(...)`
AddrOf(g, e) ==
    IF e.t = "addr" THEN EvalInt(e.e, g.labelTable) ELSE [fail |-> TRUE, v |-> 0]

\* the optional count of inc / dec
TimesOf(g, e) ==
    IF e.t = "nil" THEN [fail |-> FALSE, v |-> 1] ELSE EvalInt(e, g.labelTable)

GenIncDec(g, instr, ch) ==
    LET a == AddrOf(g, instr.dst)
        n == TimesOf(g, instr.src)
    IN  IF a.fail \/ n.fail THEN GenFail(g)
        ELSE GenWrite(GenPoint(g, a.v), Rep(ch, n.v))

\* call, read, clear: move to the address, write the text
GenAt(g, instr, text) ==
    LET a == AddrOf(g, instr.dst)
    IN  IF a.fail THEN GenFail(g) ELSE GenWrite(GenPoint(g, a.v), text)

GenWhile(g, instr) ==
    LET a == AddrOf(g, instr.dst)
    IN  IF a.fail THEN GenFail(g) ELSE GenLoopStart(GenPoint(g, a.v))

GenEndWhile(g, instr) ==
    IF instr.dst.t = "addr"
    THEN LET a == AddrOf(g, instr.dst)
         IN  IF a.fail \/ PopFails(g) THEN GenFail(g)
             ELSE GenWrite(GenPoint(PopLoopStart(g), a.v), <<chClose>>)
    ELSE GenLoopEnd(g)

ClearText == <<chOpen, chMinus, chClose>>

GenIf(g, instr) ==
    LET c == AddrOf(g, instr.dst)
        j == AddrOf(g, instr.src)
    IN  IF c.fail \/ j.fail THEN GenFail(g)
        ELSE LET g1 == GenWrite(GenPoint(g, j.v), ClearText \o <<chPlus>>)
                 g2 == PushLoopStart(PushLoopStart(GenPoint(g1, c.v), c.v), j.v)
                 g3 == GenWrite(g2, <<chOpen>> \o ClearText)
             IN  GenWrite(GenPoint(g3, j.v), ClearText)

GenElse(g) ==
    IF Len(g.loopStarts) < 2 THEN GenFail(g)
    ELSE LET junkPtr == PopValue(g)
             condPtr == PopValue(PopLoopStart(g))
             g1 == PopLoopStart(PopLoopStart(g))
             g2 == GenWrite(GenPoint(g1, condPtr), <<chClose>>)
             g3 == GenWrite(GenPoint(g2, junkPtr), <<chOpen>>)
         IN  PushLoopStart(PushLoopStart(g3, condPtr), junkPtr)

GenEndIf(g) ==
    IF Len(g.loopStarts) < 2 THEN GenFail(g)
    ELSE LET condPtr == PopValue(PopLoopStart(g))
             g1 == PopLoopStart(PopLoopStart(g))
         IN  GenWrite(GenPoint(g1, condPtr), <<chClose>>)

\* const without the check for a name that is already bound
GenConstRebinding(g, instr) ==
    IF instr.dst.t = "nil" \/ instr.src.t # "nil" THEN GenFail(g)
    ELSE IF g.label = "" THEN GenFail(g)
    ELSE [g EXCEPT !.labelTable =
            [n \in DOMAIN g.labelTable \cup {g.label} |->
                IF n = g.label THEN instr.dst ELSE g.labelTable[n]]]

GenConst(g, instr) ==
    IF instr.dst.t = "nil" \/ instr.src.t # "nil" THEN GenFail(g)
    ELSE IF g.label = "" THEN GenFail(g)
    ELSE IF g.label \in DOMAIN g.labelTable THEN GenFail(g)
    ELSE [g EXCEPT !.labelTable =
            [n \in DOMAIN g.labelTable \cup {g.label} |->
                IF n = g.label THEN instr.dst ELSE g.labelTable[n]]]

\* gen.instr: the instruction, then `g.label = ""`
GenInstr(g, instr) ==
    LET out ==
        CASE instr.name = "inc" -> GenIncDec(g, instr, chPlus)
          [] instr.name = "dec" -> GenIncDec(g, instr, chMinus)
          [] instr.name = "while" -> GenWhile(g, instr)
          [] instr.name = "endwhile" -> GenEndWhile(g, instr)
          [] instr.name = "call" -> GenAt(g, instr, <<chDot>>)
          [] instr.name = "read" -> GenAt(g, instr, <<chComma>>)
          [] instr.name = "clear" -> GenAt(g, instr, ClearText)
          [] instr.name = "if" -> GenIf(g, instr)
          [] instr.name = "else" -> GenElse(g)
          [] instr.name = "endif" -> GenEndIf(g)
          [] instr.name = "const" -> GenConst(g, instr)
          [] OTHER -> GenFail(g)
    IN  IF out.failed THEN out ELSE [out EXCEPT !.label = ""]

GenStmt(g, stmt) ==
    IF g.failed THEN g
    ELSE IF stmt.kind = "label" THEN [g EXCEPT !.label = stmt.name]
    ELSE GenInstr(g, stmt)

\* generate: the gen after the first n statements
RECURSIVE GenAfter(_, _)
GenAfter(stmts, n) ==
    IF n = 0 THEN NewGen ELSE GenStmt(GenAfter(stmts, n - 1), stmts[n])

Generate(stmts) == GenAfter(stmts, Len(stmts))

\* ==================================================================== parser
tokNil == 0
tokEOL == 1
tokId == 2
tokInt == 3
tokComma == 4
tokColon == 5
tokLBracket == 6
tokRBracket == 7

\* token{t, v}
Token(t, v) == [t |-> t, v |-> v]

\* strconv.Atoi on the texts the lexer's Int tokens carry here: a decimal
\* text converts, any other text (the scanner also takes 0x1 for an Int) is
\* an error.
Atoi(v) ==
    CASE v = "0" -> [fail |-> FALSE, v |-> 0]
      [] v = "1" -> [fail |-> FALSE, v |-> 1]
      [] v = "2" -> [fail |-> FALSE, v |-> 2]
      [] OTHER -> [fail |-> TRUE, v |-> 0]

\* strings.ToLower on the identifier texts used here
ToLower(v) == IF v = "INC" THEN "inc" ELSE v

\* A parse result: fail (a panic, a nil token dereferenced included), the
\* tokens left, the value parsed.
ParseFail == [fail |-> TRUE, toks |-> <<>>, v |-> NoExpr]

ParseOk(toks, v) == [fail |-> FALSE, toks |-> toks, v |-> v]

ParseExprId(toks) ==
    IF toks = <<>> \/ Head(toks).t # tokId THEN ParseFail
    ELSE ParseOk(Tail(toks), ExprId(Head(toks).v))

ParseExprInt(toks) ==
    IF toks = <<>> \/ Head(toks).t # tokInt THEN ParseFail
    ELSE IF Atoi(Head(toks).v).fail THEN ParseFail
    ELSE ParseOk(Tail(toks), ExprInt(Atoi(Head(toks).v).v))

RECURSIVE ParseExpr(_)
ParseExprAddr(toks) ==
    IF toks = <<>> \/ Head(toks).t # tokLBracket THEN ParseFail
    ELSE LET r == ParseExpr(Tail(toks))
         IN  IF r.fail THEN ParseFail
             ELSE IF r.toks = <<>> \/ Head(r.toks).t # tokRBracket THEN ParseFail
             ELSE ParseOk(Tail(r.toks), ExprAddr(r.v))

ParseExpr(toks) ==
    IF toks = <<>> THEN ParseFail
    ELSE IF Head(toks).t = tokId THEN ParseExprId(toks)
    ELSE IF Head(toks).t = tokLBracket THEN ParseExprAddr(toks)
    ELSE ParseExprInt(toks)

\* `tok == nil || tok.t == tokEOL`
AtLineEnd(toks) == toks = <<>> \/ Head(toks).t = tokEOL

ParseStmtInstr(toks) ==
    IF toks = <<>> \/ Head(toks).t # tokId THEN ParseFail
    ELSE LET name == ToLower(Head(toks).v)
             rest == Tail(toks)
         IN  IF AtLineEnd(rest) THEN ParseOk(rest, StmtInstr(name, NoExpr, NoExpr))
             ELSE LET d == ParseExpr(rest)
                  IN  IF d.fail THEN ParseFail
                      ELSE IF AtLineEnd(d.toks)
                      THEN ParseOk(d.toks, StmtInstr(name, d.v, NoExpr))
                      ELSE IF Head(d.toks).t # tokComma THEN ParseFail
                      ELSE LET e == ParseExpr(Tail(d.toks))
                           IN  IF e.fail THEN ParseFail
                               ELSE ParseOk(e.toks, StmtInstr(name, d.v, e.v))

\* tokens.peek: nil when fewer than two tokens are left; parseStmt
\* dereferences it unchecked.
PeekIsNil(toks) == Len(toks) < 2

ParseStmt(toks) ==
    IF toks = <<>> \/ Head(toks).t # tokId THEN ParseFail
    ELSE IF PeekIsNil(toks) THEN ParseFail
    ELSE IF toks[2].t = tokColon
    THEN ParseOk(Tail(Tail(toks)), StmtLabel(Head(toks).v))
    ELSE ParseStmtInstr(toks)

\* parse: [fail, stmts]
RECURSIVE ParseFrom(_, _)
ParseFrom(toks, stmts) ==
    IF toks = <<>> THEN [fail |-> FALSE, stmts |-> stmts]
    ELSE IF Head(toks).t = tokEOL THEN ParseFrom(Tail(toks), stmts)
    ELSE LET r == ParseStmt(toks)
         IN  IF r.fail THEN [fail |-> TRUE, stmts |-> <<>>]
             ELSE ParseFrom(r.toks, Append(stmts, r.v))

Parse(toks) == ParseFrom(toks, <<>>)


\* -------------------------------------------------------------------- state
VARIABLES
    asm,        \* the statements `input` was generated from; <<>> if none
    input,      \* the bytes handed to NewProgram
    err,        \* NewProgram's error: "nil" or "ErrCodeBracketImbalance"
    memory,     \* Program.memory, indexed from 0
    dataStart,  \* Program.dataStart
    pc,         \* Program.pc
    memPtr,     \* Program.memPtr
    r8a, r8b, r16a, r16b, r32a, r32b,   \* the register bank
    status,     \* the Run goroutine: "rejected" (no Program), "idle" (not
                \* started), "running", "sending" (parked in opChan <- op),
                \* "woken" (the send completed), "halted", "panic"
    sending,    \* <<op>> while the goroutine is parked in the send, else <<>>
    opChan,     \* the buffered channel's contents, oldest first
    didInit,    \* System.didInit
    remaining,  \* iterations left of Update's receive loop; 0 outside Update
    invoked,    \* history: the Ops handed to opChan <- op, in invocation order
    received,   \* history: the Ops the consumer has received, in order
    stored,     \* history: per store opcode, the bytes that lay before the
                \* pointer when it was last invoked (<<>> before that)
    toks,       \* the tokens handed to parse; <<>> if none
    gen,        \* the generator
    line,       \* statements of asm the generator has processed
    phase       \* the assembler: "parse", "parsefailed", "parsed", "ast" (asm
                \* given, not parsed), "generate", "genfailed", "generated",
                \* "none" (no assembler run)

regs == <<r8a, r8b, r16a, r16b, r32a, r32b>>
vmVars == <<memory, dataStart, pc, memPtr, regs, status, sending>>
bsVars == <<toks, gen, line, phase>>
vars == <<asm, input, err, memory, dataStart, pc, memPtr, regs, status, sending,
          opChan, didInit, remaining, invoked, received, stored, bsVars>>

MemLen == dataStart + TapeSize      \* len(p.memory)

Cell == memory[memPtr]              \* p.Byte(p.memPtr)

\* ------------------------------------------------------------ Right / Left
RightWrapToData(ptr) == IF ptr + 1 >= MemLen THEN dataStart ELSE ptr + 1

Right(ptr) == IF ptr + 1 >= MemLen THEN 0 ELSE ptr + 1

Left(ptr) == IF ptr - 1 < 0 THEN MemLen - 1 ELSE ptr - 1

RECURSIVE RightN(_, _)
RightN(ptr, k) == IF k = 0 THEN ptr ELSE RightN(Right(ptr), k - 1)

RECURSIVE LeftN(_, _)
LeftN(ptr, k) == IF k = 0 THEN ptr ELSE LeftN(Left(ptr), k - 1)

\* The index at which `for i = p.pc; p.memory[i] == ch; i++` stops; MemLen
\* when the run reaches the end of memory (p.memory[i] is then out of range).
RunEnd(i, ch) ==
    CHOOSE j \in i..MemLen :
        /\ j = MemLen \/ memory[j] # ch
        /\ \A x \in i..(j - 1) : memory[x] = ch

\* ---------------------------------------------------------- loop scanning
\* JumpToCloseLoop from index i with the depth counted so far: the index
\* the scan stops at, or MemLen when p.memory[p.pc] runs out of range.
RECURSIVE CloseScan(_, _)
CloseScan(i, depth) ==
    IF i >= MemLen THEN MemLen
    ELSE IF memory[i] = 0 THEN i
    ELSE IF memory[i] = chOpen THEN CloseScan(i + 1, depth + 1)
    ELSE IF memory[i] = chClose
         THEN IF depth - 1 <= 0 THEN i ELSE CloseScan(i + 1, depth - 1)
    ELSE CloseScan(i + 1, depth)

JumpToCloseLoop(from) == CloseScan(from, 0)

\* JumpToOpenLoop from index i: the index the scan stops at (clamped to 0).
RECURSIVE OpenScan(_, _)
OpenScan(i, depth) ==
    LET back(d) == IF i - 1 < 0 THEN 0 ELSE OpenScan(i - 1, d)
    IN  IF memory[i] = 0 THEN i
        ELSE IF memory[i] = chClose THEN back(depth + 1)
        ELSE IF memory[i] = chOpen
             THEN IF depth - 1 <= 0 THEN i ELSE back(depth - 1)
        ELSE back(depth)

JumpToOpenLoop(from) == OpenScan(from, 0)

\* ------------------------------------------------------------------- Op
\* The Op built by Run's '.' case: code from the current cell, args copied
\* from memory[argsStart : memPtr] to the front of the zeroed array.
MakeOp ==
    LET argsStart == IF memPtr - ArgsLen < 0 THEN 0 ELSE memPtr - ArgsLen
    IN  [code |-> Cell,
         args |-> [j \in 0..(ArgsLen - 1) |->
                     IF argsStart + j < memPtr THEN memory[argsStart + j] ELSE 0]]

\* Op.Byte(i) = op.args[len(op.args)-i-1]
OpByte(op, i) == op.args[ArgsLen - i - 1]

\* Op.Word ignores its parameter
OpWord(op) == OpByte(op, 1) * 256 + OpByte(op, 0)

OpQWord(op) ==
    OpByte(op, 3) * 16777216 + OpByte(op, 2) * 65536 + OpByte(op, 1) * 256 + OpByte(op, 0)

InternalOps == {OpNop, OpRelJmpFwd, OpRelJmpBwd} \cup (OpR8AStore..OpR32BLoad)

\* SetByte / SetWord / SetQWord at idx: the memory after the writes
SetByte(mem, idx, value) == [mem EXCEPT ![idx] = value]

SetWord(mem, idx, value) ==
    SetByte(SetByte(mem, idx - 1, ToByte(value \div 256)), idx, ToByte(value))

SetQWord(mem, idx, value) ==
    SetByte(SetByte(SetByte(SetByte(mem,
        idx - 3, ToByte(value \div 16777216)),
        idx - 2, ToByte(value \div 65536)),
        idx - 1, ToByte(value \div 256)),
        idx, ToByte(value))

\* ----------------------------------------------------------------- Init
Alphabet == Instructions \cup {chSpace}

ShortInputs == UNION {[1..k -> Alphabet] : k \in 0..MaxLen}

\* The inputs of TestProgramRun, byte for byte.
TestAdd5 == <<97, 100, 100, chSpace, 53, chSpace>> \o Rep(chPlus, 5)

TestWrapDec == Rep(chRight, 4) \o <<chPlus, chLeft, chMinus>>

TestMul100 ==
    Rep(chPlus, 5) \o <<chSpace>> \o Rep(chPlus, 5) \o <<chOpen, chRight>>
    \o Rep(chPlus, 5) \o <<chSpace>> \o Rep(chPlus, 5)
    \o <<chLeft, chMinus, chClose, chSpace, 49, 48, 48>>

TestNested ==
    Rep(chPlus, 3) \o <<chOpen, chOpen, chRight, chClose>> \o Rep(chPlus, 5)
    \o <<chOpen, chLeft, chClose, chRight, chMinus, chClose>>

TestRelJmp ==
    <<chPlus, chPlus, chRight, chPlus, chDot, chSpace, chPlus, chPlus, chSpace, chPlus>>

TestReg16 ==
    <<chPlus, chRight>> \o Rep(chPlus, 4) \o <<chRight>> \o Rep(chPlus, 10)
    \o <<chSpace>> \o Rep(chPlus, 10) \o <<chSpace, chPlus, chPlus, chDot>>
    \o <<chOpen, chRight, chRight, chPlus, chLeft, chLeft, chMinus, chClose>>
    \o <<chRight, chRight>> \o Rep(chPlus, 6) \o <<chDot>>

TestInputs == {TestAdd5, TestWrapDec, TestMul100, TestNested, TestRelJmp, TestReg16}

\* Inputs that take the pointer past either end of the tape.
\* TapeSize steps right of the first data cell is index 0 of memory.
WrapInvoke == Rep(chRight, TapeSize + 1) \o <<chDot>>

\* at index 1: '>' - 42 = OpR8AStore, then + 6 = OpR8ALoad
WrapStoreLoad ==
    Rep(chRight, TapeSize + 1) \o Rep(chMinus, chRight - OpR8AStore) \o <<chDot>>
    \o Rep(chPlus, OpR8ALoad - OpR8AStore) \o <<chDot>>

\* 13 steps left of the first data cell is the first byte of the loop body
ZeroInBodyOpen ==
    Rep(chLeft, Pad + 3) \o <<chOpen, chMinus, chClose>>
    \o <<chOpen, chPlus, chPlus, chClose>>

\* the body clears its own third byte (index 4 of memory), then returns to
\* the first data cell
ZeroInBodyClose ==
    <<chPlus, chOpen>> \o Rep(chRight, TapeSize + 4) \o <<chOpen, chMinus, chClose>>
    \o Rep(chLeft, TapeSize + 4) \o <<chClose>>

\* a forward jump that reaches the end of memory
JumpPastEnd == Rep(chPlus, Pad + TapeSize + 1) \o <<chRight, chPlus, chDot>>

\* one more forwarding invoke than the channel holds
RECURSIVE Times(_, _)
Times(text, n) == IF n = 0 THEN <<>> ELSE text \o Times(text, n - 1)

FillChannel == Times(<<chMinus, chDot>>, QueueCap + 1)

\* OpSetColor (41) with four argument bytes before the pointer
SetColor ==
    <<chPlus, chRight, chPlus, chPlus, chRight>> \o Rep(chPlus, 3) \o <<chRight>>
    \o Rep(chPlus, 4) \o <<chRight>> \o Rep(chPlus, 41) \o <<chDot>>

\* opcode 3: neither served by the VM nor one of the graphics opcodes
UnassignedOp == Rep(chPlus, 3) \o <<chDot>>

\* a backward jump by 255 from position 4, then one by 2 from position 4
RelJmpBack == <<chMinus, chRight, chPlus, chPlus, chDot>>

\* a forward jump from position 12 to the first data cell
JumpIntoData == Rep(chPlus, Pad) \o <<chRight, chPlus, chDot>>

\* OpR8ALoad with the pointer on index 0: '>' - 36 = 26
WrapLoad == Rep(chRight, TapeSize) \o Rep(chMinus, chRight - OpR8ALoad) \o <<chDot>>

\* Pad + 1 step-lefts put the pointer on the ']' of the clear idiom that
\* follows them.
ClearOwnClose == Rep(chLeft, Pad + 1) \o <<chOpen, chMinus, chClose>>

EdgeInputs ==
    {WrapInvoke, WrapStoreLoad, ZeroInBodyOpen, ZeroInBodyClose, JumpPastEnd,
     FillChannel, SetColor, UnassignedOp, RelJmpBack, JumpIntoData, WrapLoad,
     ClearOwnClose}

\* A run of one kind on every value a run of the other kind can leave.
\* Short runs on every value, and runs of a whole modulus on the low values.
RunsOf(first, second, as, ks) ==
    {Rep(first, a) \o Rep(second, k) : a \in as, k \in ks}

RunInputs ==
    RunsOf(chMinus, chPlus, 0..255, {1, 2}) \cup RunsOf(chPlus, chMinus, 0..255, {1, 2})
    \cup RunsOf(chMinus, chPlus, 0..2, 254..256) \cup RunsOf(chPlus, chMinus, 0..2, 254..256)

Inputs == ShortInputs \cup TestInputs \cup EdgeInputs \cup RunInputs

\* Assembly sources ----------------------------------------------------------
Inc(a, n) == StmtInstr("inc", ExprAddr(ExprInt(a)), ExprInt(n))
Dec(a, n) == StmtInstr("dec", ExprAddr(ExprInt(a)), ExprInt(n))
Inc1(a) == StmtInstr("inc", ExprAddr(ExprInt(a)), NoExpr)
Clear(a) == StmtInstr("clear", ExprAddr(ExprInt(a)), NoExpr)
If(c, j) == StmtInstr("if", ExprAddr(ExprInt(c)), ExprAddr(ExprInt(j)))
Else == StmtInstr("else", NoExpr, NoExpr)
EndIf == StmtInstr("endif", NoExpr, NoExpr)

Cells == 0..(TapeSize - 1)

MinOf(S) == CHOOSE x \in S : \A y \in S : x <= y

\* the three lowest cells other than c and j, in rising or falling order
Spare(c, j) ==
    LET a == MinOf(Cells \ {c, j})
        b == MinOf(Cells \ {c, j, a})
        d == MinOf(Cells \ {c, j, a, b})
    IN  {<<a, b, d>>, <<d, b, a>>}

\* what precedes the construct: the condition cell is left at 0, 1, 2, 255, 254
CondSetups(c) == {<<>>, <<Inc(c, 1)>>, <<Inc(c, 2)>>, <<Dec(c, 1)>>, <<Dec(c, 2)>>}

\* a branch body: work on a scratch cell o, then one increment of cell m
Bodies(m, o) == {<<Inc1(m)>>, <<Dec(o, 1), Clear(o), Inc(o, 2), Inc1(m)>>}

IfElseAt(c, j) ==
    UNION {
        {setup \o <<If(c, j)>> \o tb \o <<Else>> \o fb \o <<EndIf>> :
            setup \in CondSetups(c), tb \in Bodies(sp[1], sp[3]),
            fb \in Bodies(sp[2], sp[3])} :
        sp \in Spare(c, j)}

IfElseSources == UNION {IfElseAt(p[1], p[2]) : p \in {q \in Cells \X Cells : q[1] # q[2]}}

\* A construct nested in the true body of another: outer if [1], [2],
\* inner if [4], [3], both conditions nonzero on entry.
NestedIfSource ==
    <<Inc(1, 1), If(1, 2), Inc1(0), Inc1(4), If(4, 3), Else, EndIf, Else, EndIf>>

AsmInputs == IfElseSources \cup {NestedIfSource}

Sources ==
    {[asm |-> <<>>, code |-> c] : c \in Inputs}
    \cup {[asm |-> a, code |-> Generate(a).sb] : a \in AsmInputs}

Init ==
    \E src \in Sources :
      LET code == src.code IN
        /\ asm = src.asm
        /\ input = code
        /\ err = ValidateBrainfuck(code)
        /\ IF err = "nil"
           THEN /\ memory = NewMemory(FilterCode(code))
                /\ dataStart = Len(FilterCode(code)) + Pad
           ELSE /\ memory = <<>>
                /\ dataStart = 0
        /\ pc = 0
        /\ memPtr = dataStart
        /\ r8a = 0 /\ r8b = 0 /\ r16a = 0 /\ r16b = 0 /\ r32a = 0 /\ r32b = 0
        /\ status = IF err = "nil" THEN "idle" ELSE "rejected"
        /\ sending = <<>>
        /\ opChan = <<>>
        /\ didInit = FALSE
        /\ remaining = 0
        /\ invoked = <<>>
        /\ received = <<>>
        /\ stored = [c \in OpR8AStore..OpR32BStore |-> <<>>]
        /\ toks = <<>>
        /\ gen = Generate(src.asm)
        /\ line = Len(src.asm)
        /\ phase = IF src.asm = <<>> THEN "none" ELSE "generated"

\* ------------------------------------------------------------------ Run
chanVars == <<opChan, invoked>>
histVars == <<stored>>
sysVars == <<asm, input, err, didInit, remaining, received, bsVars>>

\* `p.pc++; instr = p.memory[p.pc]` after the instruction left pc at `at`:
\* reading past the end of memory is a runtime panic.
Advance(at) ==
    /\ pc' = at + 1
    /\ status' = IF at + 1 >= MemLen THEN "panic" ELSE "running"

Panic ==
    /\ status' = "panic"
    /\ UNCHANGED pc

Running == status = "running"

\* `for instr != 0`: a zero byte ends Run.
Halt ==
    /\ Running /\ memory[pc] = 0
    /\ status' = "halted"
    /\ UNCHANGED <<memory, dataStart, pc, memPtr, regs, sending, chanVars, sysVars, histVars>>

StepRight ==
    /\ Running /\ memory[pc] = chRight
    /\ LET e == RunEnd(pc, chRight)
       IN  IF e >= MemLen
           THEN Panic /\ UNCHANGED memPtr
           ELSE memPtr' = RightN(memPtr, e - pc) /\ Advance(e - 1)
    /\ UNCHANGED <<memory, dataStart, regs, sending, chanVars, sysVars, histVars>>

StepLeft ==
    /\ Running /\ memory[pc] = chLeft
    /\ LET e == RunEnd(pc, chLeft)
       IN  IF e >= MemLen
           THEN Panic /\ UNCHANGED memPtr
           ELSE memPtr' = LeftN(memPtr, e - pc) /\ Advance(e - 1)
    /\ UNCHANGED <<memory, dataStart, regs, sending, chanVars, sysVars, histVars>>

StepInc ==
    /\ Running /\ memory[pc] = chPlus
    /\ LET e == RunEnd(pc, chPlus)
       IN  IF e >= MemLen
           THEN Panic /\ UNCHANGED memory
           ELSE /\ memory' = SetByte(memory, memPtr,
                                ToByte(AddRolling(Cell, e - pc, RollMax)))
                /\ Advance(e - 1)
    /\ UNCHANGED <<dataStart, memPtr, regs, sending, chanVars, sysVars, histVars>>

StepDec ==
    /\ Running /\ memory[pc] = chMinus
    /\ LET e == RunEnd(pc, chMinus)
       IN  IF e >= MemLen
           THEN Panic /\ UNCHANGED memory
           ELSE /\ memory' = SetByte(memory, memPtr,
                                ToByte(SubRolling(Cell, e - pc, RollMax)))
                /\ Advance(e - 1)
    /\ UNCHANGED <<dataStart, memPtr, regs, sending, chanVars, sysVars, histVars>>

\* bytes.Equal(p.memory[p.pc:p.pc+3], "[-]"), for pc+3 within the slice
IsClearIdiom(at) ==
    /\ memory[at] = chOpen /\ memory[at + 1] = chMinus /\ memory[at + 2] = chClose

StepOpen ==
    /\ Running /\ memory[pc] = chOpen
    /\ IF pc + 3 > MemLen
       THEN Panic /\ UNCHANGED memory       \* slice bounds out of range
       ELSE IF IsClearIdiom(pc)
       THEN memory' = SetByte(memory, memPtr, 0) /\ Advance(pc + 2)
       ELSE IF Cell = 0
       THEN /\ UNCHANGED memory
            /\ LET to == JumpToCloseLoop(pc)
               IN  IF to >= MemLen THEN Panic ELSE Advance(to)
       ELSE UNCHANGED memory /\ Advance(pc)
    /\ UNCHANGED <<dataStart, memPtr, regs, sending, chanVars, sysVars, histVars>>

StepClose ==
    /\ Running /\ memory[pc] = chClose
    /\ IF Cell # 0 THEN Advance(JumpToOpenLoop(pc)) ELSE Advance(pc)
    /\ UNCHANGED <<memory, dataStart, memPtr, regs, sending, chanVars, sysVars, histVars>>

\* ',' and every nonzero byte that is no instruction: the switch does nothing.
StepInput ==
    /\ Running /\ memory[pc] = chComma
    /\ Advance(pc)
    /\ UNCHANGED <<memory, dataStart, memPtr, regs, sending, chanVars, sysVars, histVars>>

StepOther ==
    /\ Running /\ memory[pc] # 0 /\ memory[pc] \notin Instructions
    /\ Advance(pc)
    /\ UNCHANGED <<memory, dataStart, memPtr, regs, sending, chanVars, sysVars, histVars>>

\* Program.Op, the cases served inside the VM -------------------------------
\* the default case of the switch: the Op goes to the channel
OpForwardsOnlyGraphics(op) == op.code >= 40

OpForwards(op) == op.code \notin InternalOps

\* bytes a register load writes before the pointer
LoadWidth(code) ==
    IF code \in {OpR8ALoad, OpR8BLoad} THEN 1
    ELSE IF code \in {OpR16ALoad, OpR16BLoad} THEN 2
    ELSE IF code \in {OpR32ALoad, OpR32BLoad} THEN 4
    ELSE 0

StoreWidth(code) == LoadWidth(code + (OpR8ALoad - OpR8AStore))

\* the first SetByte of a load indexes memory below 0
LoadFaults(op) == memPtr - LoadWidth(op.code) < 0

MemAfterOp(op) ==
    CASE op.code = OpR8ALoad -> SetByte(memory, memPtr - 1, r8a)
      [] op.code = OpR8BLoad -> SetByte(memory, memPtr - 1, r8b)
      [] op.code = OpR16ALoad -> SetWord(memory, memPtr - 1, r16a)
      [] op.code = OpR16BLoad -> SetWord(memory, memPtr - 1, r16b)
      [] op.code = OpR32ALoad -> SetQWord(memory, memPtr - 1, r32a)
      [] op.code = OpR32BLoad -> SetQWord(memory, memPtr - 1, r32b)
      [] OTHER -> memory

\* the backward jump without its clamp at 0
PcAfterOpUnclamped(op) ==
    CASE op.code = OpRelJmpFwd ->
            IF pc + OpByte(op, 0) >= MemLen THEN MemLen - 1 ELSE pc + OpByte(op, 0)
      [] op.code = OpRelJmpBwd -> pc - OpByte(op, 0)
      [] OTHER -> pc

\* p.pc after the relative jumps, before Run's p.pc++
PcAfterOp(op) ==
    CASE op.code = OpRelJmpFwd ->
            IF pc + OpByte(op, 0) >= MemLen THEN MemLen - 1 ELSE pc + OpByte(op, 0)
      [] op.code = OpRelJmpBwd ->
            IF pc - OpByte(op, 0) < 0 THEN 0 ELSE pc - OpByte(op, 0)
      [] OTHER -> pc

StoreRegs(op) ==
    /\ r8a' = IF op.code = OpR8AStore THEN OpByte(op, 0) ELSE r8a
    /\ r8b' = IF op.code = OpR8BStore THEN OpByte(op, 0) ELSE r8b
    /\ r16a' = IF op.code = OpR16AStore THEN OpWord(op) ELSE r16a
    /\ r16b' = IF op.code = OpR16BStore THEN OpWord(op) ELSE r16b
    /\ r32a' = IF op.code = OpR32AStore THEN OpQWord(op) ELSE r32a
    /\ r32b' = IF op.code = OpR32BStore THEN OpQWord(op) ELSE r32b

\* opChan <- op with a non-blocking send that gives up on a full channel
ChanSendDropping(op) ==
    /\ opChan' = IF Len(opChan) < QueueCap THEN Append(opChan, op) ELSE opChan
    /\ sending' = <<>>
    /\ Advance(pc)

\* opChan <- op: buffered when there is room, else the goroutine parks
\* holding op until a receive makes room.
ChanSend(op) ==
    IF Len(opChan) < QueueCap
    THEN /\ opChan' = Append(opChan, op)
         /\ sending' = <<>>
         /\ Advance(pc)
    ELSE /\ sending' = <<op>>
         /\ status' = "sending"
         /\ UNCHANGED <<opChan, pc>>

StepInvoke ==
    /\ Running /\ memory[pc] = chDot
    /\ LET op == MakeOp
       IN  IF OpForwards(op)
           THEN /\ Len(invoked) < MaxOps
                /\ invoked' = Append(invoked, op)
                /\ ChanSend(op)
                /\ UNCHANGED <<memory, regs>>
           ELSE /\ IF LoadFaults(op)
                   THEN Panic /\ UNCHANGED <<memory, regs>>
                   ELSE /\ memory' = MemAfterOp(op)
                        /\ StoreRegs(op)
                        /\ Advance(PcAfterOp(op))
                /\ UNCHANGED <<sending, chanVars>>
    /\ stored' = IF Cell \in DOMAIN stored /\ memPtr >= StoreWidth(Cell)
                 THEN [stored EXCEPT ![Cell] =
                         [i \in 1..StoreWidth(Cell) |->
                             memory[memPtr - StoreWidth(Cell) + i - 1]]]
                 ELSE stored
    /\ UNCHANGED <<dataStart, memPtr, sysVars>>

\* the send has completed: Op returns and Run goes on with p.pc++
SendReturn ==
    /\ status = "woken"
    /\ Advance(pc)
    /\ UNCHANGED <<memory, dataStart, memPtr, regs, sending, chanVars, sysVars, histVars>>

\* --------------------------------------------------------- System.Update
\* Update is entered: the first call starts the Run goroutine.
UpdateBegin ==
    /\ err = "nil" /\ remaining = 0
    /\ didInit' = TRUE
    /\ status' = IF ~didInit THEN "running" ELSE status
    /\ remaining' = TickLimit
    /\ UNCHANGED <<bsVars, asm, input, err, memory, dataStart, pc, memPtr, regs, sending,
                   chanVars, received, stored>>

\* the receive the consumer takes from the channel
RecvFromTail(ch) == ch[Len(ch)]

RecvHead(ch) == Head(ch)

\* case op := <-s.opChan.  A sender parked on the full channel has its Op
\* moved into the freed slot by the same receive and becomes runnable.
UpdateRecv ==
    /\ remaining > 0 /\ opChan # <<>>
    /\ received' = Append(received, RecvHead(opChan))
    /\ remaining' = remaining - 1
    /\ IF sending # <<>>
       THEN /\ opChan' = Append(Tail(opChan), sending[1])
            /\ sending' = <<>>
            /\ status' = "woken"
       ELSE /\ opChan' = Tail(opChan)
            /\ UNCHANGED <<sending, status>>
    /\ UNCHANGED <<bsVars, asm, input, err, memory, dataStart, pc, memPtr, regs, didInit,
                   invoked, stored>>

\* a receive without a default case: on an empty channel the tick waits
UpdateWaits ==
    /\ remaining > 0 /\ opChan = <<>>
    /\ UNCHANGED vars

\* default: break loop
UpdateBreak ==
    /\ remaining > 0 /\ opChan = <<>>
    /\ remaining' = 0
    /\ UNCHANGED <<bsVars, asm, input, err, memory, dataStart, pc, memPtr, regs, status,
                   sending, chanVars, didInit, received, stored>>

Next ==
    \/ Halt
    \/ StepRight
    \/ StepLeft
    \/ StepInc
    \/ StepDec
    \/ StepOpen
    \/ StepClose
    \/ StepInvoke
    \/ StepInput
    \/ StepOther
    \/ SendReturn
    \/ UpdateBegin
    \/ UpdateRecv
    \/ UpdateBreak

Spec == Init /\ [][Next]_vars

\* The Go scheduler runs a runnable Run goroutine, and the game loop keeps
\* calling Update.
VMNext ==
    \/ Halt \/ StepRight \/ StepLeft \/ StepInc \/ StepDec \/ StepOpen
    \/ StepClose \/ StepInvoke \/ StepInput \/ StepOther \/ SendReturn

UpdateNext == UpdateBegin \/ UpdateRecv \/ UpdateBreak

FairSpec == Spec /\ WF_vars(VMNext) /\ WF_vars(UpdateNext)

\* =============================================================== assembler run
\* parse and generate on their own: a token sequence is parsed and the
\* statements are generated one by one, or a statement sequence is generated.
EOL == Token(tokEOL, "\n")

TokAlphabet ==
    {EOL, Token(tokId, "inc"), Token(tokId, "INC"), Token(tokInt, "1"),
     Token(tokInt, "0x1"), Token(tokComma, ","), Token(tokColon, ":"),
     Token(tokLBracket, "["), Token(tokRBracket, "]")}

TokInputs == UNION {[1..k -> TokAlphabet] : k \in 0..MaxToks}

At(a) == ExprAddr(ExprInt(a))

StmtAlphabet ==
    {Inc1(1), Inc(2, 2), Dec(0, 2), Inc(0, 0), Clear(2),
     StmtInstr("call", At(1), NoExpr), StmtInstr("read", At(0), NoExpr),
     StmtInstr("while", At(1), NoExpr), StmtInstr("endwhile", NoExpr, NoExpr),
     StmtInstr("endwhile", At(0), NoExpr), If(0, 2), Else, EndIf,
     StmtLabel("x"), StmtInstr("const", ExprInt(2), NoExpr),
     StmtInstr("const", ExprId("x"), NoExpr),
     StmtInstr("inc", ExprAddr(ExprId("x")), NoExpr)}

\* longer programs: a label bound twice, a label used after its const, a
\* loop inside a branch, a const bound to another const, two consts bound
\* to each other
LongSources ==
    {<<StmtLabel("x"), StmtInstr("const", ExprInt(1), NoExpr),
       StmtLabel("x"), StmtInstr("const", ExprInt(2), NoExpr)>>,
     <<StmtLabel("x"), StmtInstr("const", ExprInt(1), NoExpr),
       StmtLabel("y"), StmtInstr("const", ExprInt(2), NoExpr),
       StmtInstr("inc", ExprAddr(ExprId("y")), ExprId("x")),
       StmtInstr("dec", ExprAddr(ExprId("x")), NoExpr)>>,
     <<If(0, 2), StmtInstr("while", At(1), NoExpr),
       StmtInstr("endwhile", NoExpr, NoExpr), Else, EndIf>>,
     <<StmtLabel("x"), StmtInstr("const", ExprInt(1), NoExpr),
       StmtLabel("y"), StmtInstr("const", ExprId("x"), NoExpr),
       StmtInstr("inc", ExprAddr(ExprId("y")), ExprId("y"))>>,
     <<StmtLabel("x"), StmtInstr("const", ExprId("y"), NoExpr),
       StmtLabel("y"), StmtInstr("const", ExprId("x"), NoExpr),
       StmtInstr("dec", ExprAddr(ExprInt(1)), ExprId("y"))>>}

StmtInputs == UNION {[1..k -> StmtAlphabet] : k \in 1..MaxStmts} \cup LongSources

AsmInit ==
    /\ \/ toks \in TokInputs /\ asm = <<>> /\ phase = "parse"
       \/ toks = <<>> /\ asm \in StmtInputs /\ phase = "ast"
    /\ gen = NewGen
    /\ line = 0
    /\ input = <<>>
    /\ err = "nil"
    /\ memory = <<>>
    /\ dataStart = 0
    /\ pc = 0
    /\ memPtr = 0
    /\ r8a = 0 /\ r8b = 0 /\ r16a = 0 /\ r16b = 0 /\ r32a = 0 /\ r32b = 0
    /\ status = "rejected"
    /\ sending = <<>>
    /\ opChan = <<>>
    /\ didInit = FALSE
    /\ remaining = 0
    /\ invoked = <<>>
    /\ received = <<>>
    /\ stored = [c \in OpR8AStore..OpR32BStore |-> <<>>]

runVars ==
    <<err, memory, dataStart, pc, memPtr, regs, status, sending, opChan, didInit,
      remaining, invoked, received, stored>>

\* ast := parse(tokens)
ParseRun ==
    /\ phase = "parse"
    /\ IF Parse(toks).fail
       THEN phase' = "parsefailed" /\ UNCHANGED asm
       ELSE phase' = "parsed" /\ asm' = Parse(toks).stmts
    /\ UNCHANGED <<toks, gen, line, input, runVars>>

\* one turn of generate's loop over ast.stmts
GenerateStmt ==
    /\ phase \in {"parsed", "ast", "generate"}
    /\ line < Len(asm)
    /\ gen' = GenStmt(gen, asm[line + 1])
    /\ line' = line + 1
    /\ phase' = IF gen'.failed THEN "genfailed" ELSE "generate"
    /\ UNCHANGED <<toks, asm, input, runVars>>

\* return gen.sb.String()
GenerateReturn ==
    /\ phase \in {"parsed", "ast", "generate"}
    /\ line = Len(asm)
    /\ phase' = "generated"
    /\ input' = gen.sb
    /\ UNCHANGED <<toks, asm, gen, line, runVars>>

AsmNext ==
    \/ ParseRun
    \/ GenerateStmt
    \/ GenerateReturn

AsmSpec == AsmInit /\ [][AsmNext]_vars


\* ================================================================== claims
Loaded == err = "nil"

\* the first n data cells
Data(n) == [i \in 1..n |-> memory[dataStart + i - 1]]

\* length of the run of byte ch that starts at the program counter
RunLength(ch) ==
    LET end == CHOOSE j \in (pc + 1)..MemLen :
                    /\ j = MemLen \/ memory[j] # ch
                    /\ \A i \in pc..(j - 1) : memory[i] = ch
    IN  end - pc

C2_FusedIncDec ==
    /\ [][/\ (StepInc /\ status' # "panic") =>
                LET k == RunLength(chPlus)
                IN  /\ memory' = [memory EXCEPT ![memPtr] = (Cell + k) % 255]
                    /\ pc' = pc + k
          /\ (StepDec /\ status' # "panic") =>
                LET k == RunLength(chMinus)
                    r == IF Cell >= k THEN (Cell - k) % 255
                         ELSE -((k - Cell) % 255)
                IN  /\ memory' = [memory EXCEPT ![memPtr] = (r + 256) % 256]
                    /\ pc' = pc + k]_vars
    /\ []((input = TestWrapDec /\ status = "halted")
            => Data(5) = <<0, 0, 0, 255, 1>>)

\* a zero cell was decremented once and holds 255
C2_Witness ==
    /\ input = TestWrapDec
    /\ status = "halted"
    /\ memory[dataStart + 3] = 255

\* C3 ------------------------------------------------------------------------
\* The shape the claim is about: statements, `if [c], [j]`, a true body,
\* `else`, a false body, `endif`, with c # j, the bodies made of inc, dec and
\* clear on cells other than c and j, each body ending in one increment of a
\* cell of its own that no other statement addresses.
IsStmt(i, name) == asm[i].kind = "instr" /\ asm[i].name = name

AddrIn(i) == asm[i].dst.e.v

IfAt == CHOOSE i \in 1..Len(asm) : IsStmt(i, "if")

ElseAt == CHOOSE i \in 1..Len(asm) : IsStmt(i, "else")

CondCell == AddrIn(IfAt)

JunkCell == asm[IfAt].src.e.v

TrueMark == AddrIn(ElseAt - 1)

FalseMark == AddrIn(Len(asm) - 1)

IfElseCase ==
    /\ asm # <<>>
    /\ Cardinality({i \in 1..Len(asm) : IsStmt(i, "if")}) = 1
    /\ Cardinality({i \in 1..Len(asm) : IsStmt(i, "else")}) = 1
    /\ Cardinality({i \in 1..Len(asm) : IsStmt(i, "endif")}) = 1
    /\ IsStmt(Len(asm), "endif")
    /\ IfAt + 1 < ElseAt /\ ElseAt + 1 < Len(asm)
    /\ CondCell # JunkCell
    /\ \A i \in 1..(IfAt - 1) :
            asm[i].name \in {"inc", "dec"} /\ AddrIn(i) = CondCell
    /\ \A i \in ((IfAt + 1)..(Len(asm) - 1)) \ {ElseAt} :
            /\ asm[i].name \in {"inc", "dec", "clear"}
            /\ AddrIn(i) \in Cells \ {CondCell, JunkCell}
    /\ asm[ElseAt - 1] = Inc1(TrueMark)
    /\ asm[Len(asm) - 1] = Inc1(FalseMark)
    /\ TrueMark # FalseMark
    /\ \A i \in 1..(Len(asm) - 2) :
            i \notin {IfAt, ElseAt, ElseAt - 1} => AddrIn(i) \notin {TrueMark, FalseMark}

\* index of the construct's first byte in the generated text
IfEntry == Len(GenAfter(asm, IfAt - 1).sb)

\* The construct has been entered with cell c nonzero / zero: the two
\* branch marks count the executions of the two bodies.
AtIfEntry == Loaded /\ pc = IfEntry /\ status \in {"idle", "running"}

\* C3 for bodies that hold no construct of their own: whatever cell c holds
\* on entry, exactly one body has executed when the VM halts, and exactly
\* once: the true body iff cell c was nonzero on entry; cell c then holds
\* zero.  (The value on entry is the one the statements before the construct
\* leave: none 0, inc n -> n, dec n -> 256 - n.)
C3_StraightLineBodies ==
    IfElseCase =>
        LET onEntry == IF IfAt = 1 THEN 0
                       ELSE IF asm[1].name = "inc" THEN asm[1].src.v
                       ELSE 256 - asm[1].src.v
            cell(a) == memory[dataStart + a]
        IN  /\ status # "panic"
            /\ AtIfEntry => cell(CondCell) = onEntry
            /\ status = "halted" =>
                  /\ cell(CondCell) = 0
                  /\ cell(TrueMark) = (IF onEntry # 0 THEN 1 ELSE 0)
                  /\ cell(FalseMark) = (IF onEntry # 0 THEN 0 ELSE 1)

\* the construct was entered with cell c = 255 and left through the true body
C3_StraightLineTrue ==
    /\ IfElseCase
    /\ asm[1] = Dec(CondCell, 1)
    /\ status = "halted"
    /\ memory[dataStart + TrueMark] = 1

\* ... and entered with cell c = 0 and left through the false body
C3_StraightLineFalse ==
    /\ IfElseCase
    /\ IfAt = 1
    /\ status = "halted"
    /\ memory[dataStart + FalseMark] = 1

\* C3 as stated, for bodies built from any generator instructions that do
\* not address c or j (a nested construct included).  Nesting of statement i:
\* the number of `if` constructs open before it.
IfDepth(i) ==
    Cardinality({k \in 1..(i - 1) : IsStmt(k, "if")})
    - Cardinality({k \in 1..(i - 1) : IsStmt(k, "endif")})

OuterIfAt == CHOOSE i \in 1..Len(asm) : IsStmt(i, "if") /\ IfDepth(i) = 0

OuterElseAt == CHOOSE i \in 1..Len(asm) : IsStmt(i, "else") /\ IfDepth(i) = 1

OuterCond == AddrIn(OuterIfAt)

OuterJunk == asm[OuterIfAt].src.e.v

AnyIfElseCase ==
    /\ asm # <<>>
    /\ Cardinality({i \in 1..Len(asm) : IsStmt(i, "if") /\ IfDepth(i) = 0}) = 1
    /\ Cardinality({i \in 1..Len(asm) : IsStmt(i, "else") /\ IfDepth(i) = 1}) = 1
    /\ IsStmt(Len(asm), "endif") /\ IfDepth(Len(asm)) = 1
    /\ OuterCond # OuterJunk
    /\ \A i \in (OuterIfAt + 1)..(Len(asm) - 1) :
          /\ asm[i].dst.t = "addr" => AddrIn(i) \in Cells \ {OuterCond, OuterJunk}
          /\ asm[i].src.t = "addr" => asm[i].src.e.v \in Cells \ {OuterCond, OuterJunk}

\* index in the text of the loop-close that statement i (else, endif) writes
CloseIndexOf(i) ==
    LET g == GenAfter(asm, i - 1)
        d == OuterCond - g.ptr
    IN  Len(g.sb) + (IF d < 0 THEN -d ELSE d)

\* Each body executes at most once only if the loop-close that ends it is
\* reached with the current cell zero (a nonzero cell repeats the body), and
\* cell c holds zero once the VM has halted.
C3_IfElseAnyBody ==
    AnyIfElseCase =>
        /\ status # "panic"
        /\ (Running /\ pc = CloseIndexOf(OuterElseAt)) => Cell = 0
        /\ (Running /\ pc = CloseIndexOf(Len(asm))) => Cell = 0
        /\ status = "halted" => memory[dataStart + OuterCond] = 0

\* ------------------------------------------------------------------- C4
\* C4: at a '.', with the pointer at p, the Op that is built has for code the
\* byte at p, and Byte(i) is the byte at p - 1 - i for every i in 0..7 with
\* p - 1 - i >= 0.
C4_OpArguments ==
    (Running /\ memory[pc] = chDot) =>
        /\ MakeOp.code = memory[memPtr]
        /\ \A i \in 0..(ArgsLen - 1) :
              memPtr - 1 - i >= 0 => OpByte(MakeOp, i) = memory[memPtr - 1 - i]

\* ------------------------------------------------------------------- C5
\* C5: a '.' puts its Op on the channel iff the code is none of 0, 1, 2,
\* 20..31; a forwarded Op changes neither tape, pointer nor registers, and
\* the program counter only moves past the '.'; an Op that is not forwarded
\* leaves the channel alone.
C5_ForwardIffNotInternal ==
    [][StepInvoke =>
        IF MakeOp.code \notin ({0, 1, 2} \cup (20..31))
        THEN /\ invoked' = Append(invoked, MakeOp)
             /\ opChan' = Append(opChan, MakeOp) \/ sending' = <<MakeOp>>
             /\ UNCHANGED <<memory, memPtr, regs>>
             /\ pc' \in {pc, pc + 1}
             /\ status' = "running" => pc' = pc + 1
        ELSE UNCHANGED <<opChan, sending, invoked>>]_vars

\* OpSetColor with its four arguments has been put on the channel and the
\* VM has moved past the '.'
C5_Witness ==
    /\ input = SetColor /\ pc = Len(input) /\ status = "running"
    /\ Len(opChan) = 1 /\ opChan[1].code = 41
    /\ <<OpByte(opChan[1], 3), OpByte(opChan[1], 2), OpByte(opChan[1], 1),
         OpByte(opChan[1], 0)>> = <<1, 2, 3, 4>>
    /\ Data(5) = <<1, 2, 3, 4, 41>> /\ memPtr = dataStart + 4

\* ------------------------------------------------------------------- C6
\* C6: a forwarding '.' on a full channel parks the VM holding its Op: no Op
\* is dropped or overwritten and the VM processes nothing while parked; the
\* Op enters the channel when the consumer takes one out, the VM then goes
\* on with the instruction after the '.'; under a consumer that keeps
\* ticking a parked VM always resumes.
C6_SendBlocksUntilRoom ==
    /\ [][(StepInvoke /\ MakeOp.code \notin InternalOps /\ Len(opChan) = QueueCap) =>
            /\ sending' = <<MakeOp>>
            /\ UNCHANGED <<opChan, pc, memory, memPtr, regs>>]_vars
    /\ [][sending # <<>> =>
            /\ UNCHANGED <<pc, memory, memPtr, regs, invoked>>
            /\ \/ sending' = sending /\ opChan' = opChan
               \/ /\ sending' = <<>>
                  /\ opChan' = Append(Tail(opChan), sending[1])
                  /\ received' = Append(received, Head(opChan))]_vars
    /\ [][(status = "woken" /\ status' # "woken") =>
            /\ pc' = pc + 1
            /\ UNCHANGED <<memory, memPtr, regs, opChan, invoked>>]_vars
    /\ (sending # <<>>) ~> (sending = <<>> /\ status \in {"running", "halted"})

\* the VM is parked on a full channel with its third Op in hand
C6_Witness ==
    /\ input = FillChannel /\ status = "sending"
    /\ Len(opChan) = QueueCap /\ Len(sending) = 1
    /\ invoked = opChan \o sending

\* ------------------------------------------------------------------- C7
\* C7: what the consumer has received, followed by what the channel holds
\* and by the Op a parked VM holds, is at all times the sequence of Ops the
\* VM forwarded: same order, same code, same arguments.
C7_ConsumerSeesOpsInOrder ==
    /\ invoked = received \o opChan \o sending
    /\ \A k \in 1..Len(received) : received[k].code \notin InternalOps

\* the consumer has received all the Ops of a program that forwards more
\* than the channel holds, and they differ
C7_Witness ==
    /\ input = FillChannel /\ status = "halted"
    /\ Len(received) = QueueCap + 1
    /\ received[1].code = 255 /\ received[2].code = 254
    /\ received = invoked

\* ------------------------------------------------------------------- C8
RegOf(code) ==
    CASE code = OpR8AStore -> r8a
      [] code = OpR8BStore -> r8b
      [] code = OpR16AStore -> r16a
      [] code = OpR16BStore -> r16b
      [] code = OpR32AStore -> r32a
      [] code = OpR32BStore -> r32b

\* big-endian value of a sequence of bytes
RECURSIVE ValueOf(_)
ValueOf(bytes) ==
    IF bytes = <<>> THEN 0
    ELSE ValueOf(SubSeq(bytes, 1, Len(bytes) - 1)) * 256 + bytes[Len(bytes)]

BytesBefore(mem, ptr, w) == [i \in 1..w |-> mem[ptr - w + i - 1]]

\* C8: a store leaves in its register exactly the w bytes B that precede the
\* pointer (w = 1, 2, 4), and a later load of that register, no store of it
\* in between, writes exactly B just before the pointer.
C8_StoreLoadRoundTrip ==
    /\ [](\A c \in OpR8AStore..OpR32BStore :
            stored[c] # <<>> => RegOf(c) = ValueOf(stored[c]))
    /\ [][\A c \in OpR8AStore..OpR32BStore :
            (/\ StepInvoke /\ status' # "panic"
             /\ Cell = c + (OpR8ALoad - OpR8AStore) /\ stored[c] # <<>>) =>
                BytesBefore(memory', memPtr, StoreWidth(c)) = stored[c]]_vars

\* ------------------------------------------------------------------- C9
\* brackets open over the bytes i..j of memory
Balance(i, j) ==
    Cardinality({k \in i..j : memory[k] = chOpen})
    - Cardinality({k \in i..j : memory[k] = chClose})

IsMatchClose(i, j) ==
    /\ memory[j] = chClose /\ Balance(i, j) = 0
    /\ \A k \in i..(j - 1) : Balance(i, k) > 0

IsMatchOpen(i, j) ==
    /\ memory[j] = chOpen /\ Balance(j, i) = 0
    /\ \A k \in (j + 1)..i : Balance(k, i) < 0

\* C9: a '[' with the current cell zero passes control to the instruction
\* after its matching ']', whatever bytes the body holds; with the cell
\* nonzero execution falls into the body ([-] clears the cell in one step).
C9_OpenSkipsToMatch ==
    [][(StepOpen /\ status' # "panic") =>
        IF Cell = 0
        THEN \A j \in (pc + 1)..(MemLen - 1) : IsMatchClose(pc, j) => pc' = j + 1
        ELSE IF IsClearIdiom(pc) THEN pc' = pc + 3 /\ memory'[memPtr] = 0
        ELSE pc' = pc + 1 /\ memory' = memory]_vars

\* ------------------------------------------------------------------ C10
\* C10: a ']' with the current cell nonzero continues with the body of its
\* matching '[', so a loop repeats until its cell is zero at the ']';
\* "+++[[>]+++++[<]>-]" leaves 0, 5, 5, 5 in the first four data cells.
C10_CloseRepeatsBody ==
    /\ [][(StepClose /\ status' # "panic" /\ Cell # 0) =>
            \A j \in 0..(pc - 1) : IsMatchOpen(pc, j) => pc' = j + 1]_vars
    /\ [][(StepClose /\ Cell = 0) => pc' = pc + 1]_vars
    /\ []((input = TestNested /\ status = "halted") => Data(4) = <<0, 5, 5, 5>>)

\* ------------------------------------------------------------------ C11
\* C11: invoking opcode 1 at code position q with argument byte 0 equal to n
\* makes q + n + 1 the next position (when that is an index of memory),
\* invoking opcode 2 makes it max(q - n, 0) + 1; neither changes the tape,
\* the pointer or a register, neither puts an Op on the channel;
\* "++>+. ++ +" leaves 2, 2 in the first two data cells.
C11_RelativeJumps ==
    /\ [][(StepInvoke /\ Cell = 1 /\ pc + OpByte(MakeOp, 0) + 1 < MemLen) =>
            /\ pc' = pc + OpByte(MakeOp, 0) + 1
            /\ status' = "running"
            /\ UNCHANGED <<memory, memPtr, regs, opChan, sending, invoked>>]_vars
    /\ [][(StepInvoke /\ Cell = 2) =>
            /\ pc' = (IF pc - OpByte(MakeOp, 0) > 0 THEN pc - OpByte(MakeOp, 0) ELSE 0) + 1
            /\ status' = "running"
            /\ UNCHANGED <<memory, memPtr, regs, opChan, sending, invoked>>]_vars
    /\ []((input = TestRelJmp /\ status = "halted") => Data(2) = <<2, 2>>)

\* the backward jump by 255 from position 4 has been clamped: position 1 is
\* next, with the pointer still on the second data cell
C11_Witness ==
    /\ input = RelJmpBack /\ status = "running"
    /\ pc = 1 /\ memPtr = dataStart + 1 /\ Data(2) = <<255, 2>>

\* ------------------------------------------------------------------ C12
\* C12: no step of an execution raises a runtime fault through a memory
\* access out of range: a program counter or written index that would leave
\* memory is clamped (the pointer wrapped) and the VM continues or halts.
C12_NoRuntimeFault == status # "panic"

\* ------------------------------------------------------------------ C20
\* C20: in every state of an execution the program counter is an index of
\* the code segment [0, dataStart): no byte of the data segment is fetched
\* as an instruction.
C20_PcInCodeSegment ==
    (Loaded /\ status \in {"idle", "running", "sending", "woken", "halted"}) =>
        pc \in 0..(dataStart - 1)

\* ------------------------------------------------------------------ C13
NamedIn(stmts, i, names) == stmts[i].kind = "instr" /\ stmts[i].name \in names

\* constructs open after the first i statements
OpenAfter(stmts, i) ==
    Cardinality({k \in 1..i : NamedIn(stmts, k, {"while", "if"})})
    - Cardinality({k \in 1..i : NamedIn(stmts, k, {"endwhile", "endif"})})

\* a closing statement with no construct open, or a construct left open
Unmatched(stmts) ==
    \/ \E i \in 1..Len(stmts) :
          /\ NamedIn(stmts, i, {"endwhile", "else", "endif"})
          /\ OpenAfter(stmts, i - 1) <= 0
    \/ OpenAfter(stmts, Len(stmts)) > 0

\* C13: generation of a program with an unmatched control construct fails
\* and returns no text, whether a closing statement (endwhile, else, endif)
\* has nothing open to match or an opening statement (while, if) is never
\* closed.
C13_UnmatchedFails ==
    /\ phase = "generated" => ~Unmatched(asm)
    /\ Unmatched(asm) => input = <<>>

\* ------------------------------------------------------------------ C14
\* the value of an operand: a literal, or the constant a label is bound to
\* the expression a chain of at most k bindings leads to from e
RECURSIVE Follow(_, _, _)
Follow(e, table, k) ==
    IF k = 0 \/ e.t # "id" \/ e.name \notin DOMAIN table THEN e
    ELSE Follow(table[e.name], table, k - 1)

ValueIn(e, table) == Follow(e, table, Cardinality(DOMAIN table)).v

\* |a - c| step markers, all step-right when a > c, all step-left when a < c
Steps(c, a) ==
    [i \in 1..(IF a > c THEN a - c ELSE c - a) |-> IF a > c THEN chRight ELSE chLeft]

\* what the statement writes once the cursor is on its target
TextOf(stmt, table) ==
    CASE stmt.name \in {"inc", "dec"} ->
            [i \in 1..(IF stmt.src.t = "nil" THEN 1 ELSE ValueIn(stmt.src, table)) |->
                IF stmt.name = "inc" THEN chPlus ELSE chMinus]
      [] stmt.name = "call" -> <<chDot>>
      [] stmt.name = "read" -> <<chComma>>
      [] stmt.name = "clear" -> <<chOpen, chMinus, chClose>>
      [] stmt.name = "while" -> <<chOpen>>
      [] stmt.name = "endwhile" -> <<chClose>>

\* C14: `inc [a], n` (`dec [a], n`) generated from cursor 0 writes exactly a
\* step-right markers, then exactly n increment (decrement) markers, n = 1
\* when the count is omitted; any later instruction that takes an address a
\* with the cursor on c writes exactly |a - c| step markers before its own
\* text, step-right when a > c, step-left when a < c, and leaves the cursor
\* on a.
C14_PointThenText ==
    [][(GenerateStmt /\ ~gen'.failed /\ asm[line + 1].kind = "instr") =>
        LET stmt == asm[line + 1]
            a == ValueIn(stmt.dst.e, gen.labelTable)
        IN  /\ (stmt.name \in {"inc", "dec", "call", "read", "clear", "while"}
                  \/ (stmt.name = "endwhile" /\ stmt.dst.t = "addr")) =>
                  /\ gen'.sb = gen.sb \o Steps(gen.ptr, a) \o TextOf(stmt, gen.labelTable)
                  /\ gen'.ptr = a
            /\ (stmt.name \in {"inc", "dec"} /\ line = 0) =>
                  gen'.sb = Rep(chRight, a) \o TextOf(stmt, gen.labelTable)
            /\ stmt.name = "if" =>
                  LET j == ValueIn(stmt.src.e, gen.labelTable)
                  IN  /\ gen'.sb = gen.sb \o Steps(gen.ptr, j) \o <<chOpen, chMinus, chClose, chPlus>>
                                    \o Steps(j, a) \o <<chOpen, chOpen, chMinus, chClose>>
                                    \o Steps(a, j) \o <<chOpen, chMinus, chClose>>
                      /\ gen'.ptr = j]_vars

\* after inc [2], 2 the statement dec [0], 2 has stepped left twice
C14_Witness ==
    /\ asm = <<Inc(2, 2), Dec(0, 2)>> /\ line = 2 /\ phase = "generate"
    /\ gen.sb = <<chRight, chRight, chPlus, chPlus, chLeft, chLeft, chMinus, chMinus>>
    /\ gen.ptr = 0

\* ------------------------------------------------------------------ C15
\* the statement about to be generated is a const / directly follows a label
ConstNext == asm[line + 1].kind = "instr" /\ asm[line + 1].name = "const"

LabelPending == line >= 1 /\ asm[line].kind = "label"

\* C15: `const v` binds the label that stands directly before it to v and
\* writes no text; it fails when no label stands directly before it (another
\* instruction in between included) and when the name is bound already; no
\* statement changes or removes a binding of the symbol table.
C15_ConstBindsOnce ==
    /\ [][(GenerateStmt /\ ConstNext) =>
            IF LabelPending /\ asm[line].name \notin DOMAIN gen.labelTable
            THEN /\ ~gen'.failed
                 /\ DOMAIN gen'.labelTable = DOMAIN gen.labelTable \cup {asm[line].name}
                 /\ gen'.labelTable[asm[line].name] = asm[line + 1].dst
                 /\ gen'.sb = gen.sb /\ gen'.ptr = gen.ptr
            ELSE gen'.failed /\ phase' = "genfailed"]_vars
    /\ [][GenerateStmt =>
            \A n \in DOMAIN gen.labelTable :
                n \in DOMAIN gen'.labelTable /\ gen'.labelTable[n] = gen.labelTable[n]]_vars
    /\ [][(GenerateStmt /\ ~ConstNext) => DOMAIN gen'.labelTable = DOMAIN gen.labelTable]_vars

\* the second `x: const` has failed and x is still bound to 1
C15_Witness ==
    /\ asm = <<StmtLabel("x"), StmtInstr("const", ExprInt(1), NoExpr),
               StmtLabel("x"), StmtInstr("const", ExprInt(2), NoExpr)>>
    /\ line = 4 /\ phase = "genfailed"
    /\ DOMAIN gen.labelTable = {"x"} /\ gen.labelTable["x"] = ExprInt(1)
    /\ gen.sb = <<>>

\* ------------------------------------------------------------------ C16
\* the grammar, over positions i..j of toks
RECURSIVE IsExprAt(_, _)
IsExprAt(i, j) ==
    \/ i = j /\ toks[i].t \in {tokId, tokInt}
    \/ /\ j >= i + 2 /\ toks[i].t = tokLBracket /\ toks[j].t = tokRBracket
       /\ IsExprAt(i + 1, j - 1)

\* a non-empty line: a maximal run of tokens without an end-of-line token
IsLineAt(i, j) ==
    /\ i <= j
    /\ i = 1 \/ toks[i - 1].t = tokEOL
    /\ j = Len(toks) \/ toks[j + 1].t = tokEOL
    /\ \A k \in i..j : toks[k].t # tokEOL

LinesOf == {l \in (1..Len(toks)) \X (1..Len(toks)) : IsLineAt(l[1], l[2])}

IsLabelLine(i, j) == j = i + 1 /\ toks[i].t = tokId /\ toks[j].t = tokColon

IsInstrLine(i, j) ==
    /\ toks[i].t = tokId
    /\ \/ j = i
       \/ IsExprAt(i + 1, j)
       \/ \E k \in (i + 2)..(j - 1) :
             toks[k].t = tokComma /\ IsExprAt(i + 1, k - 1) /\ IsExprAt(k + 1, j)

Grammatical == \A l \in LinesOf : IsLabelLine(l[1], l[2]) \/ IsInstrLine(l[1], l[2])

\* the place of a line among the lines, in source order
RankOf(l) == Cardinality({m \in LinesOf : m[1] <= l[1]})

\* C16: a token sequence that follows the grammar, its last line followed by
\* an end-of-line token or not, parses to one statement per non-empty line
\* in source order, a label statement exactly for the lines `identifier ':'`;
\* every other token sequence makes parse fail.
C16_ParseFollowsGrammar ==
    /\ phase = "parsefailed" => ~Grammatical
    /\ phase = "parsed" =>
          /\ Grammatical
          /\ Len(asm) = Cardinality(LinesOf)
          /\ \A l \in LinesOf :
                asm[RankOf(l)].kind = "label" <=> IsLabelLine(l[1], l[2])

\* ------------------------------------------------------------------ C17
CountOf(text, ch) == Len(SelectSeq(text, LAMBDA b : b = ch))

\* C17: NewProgram returns ErrCodeBracketImbalance, and no Program, exactly
\* when the input holds a different number of loop-open and loop-close
\* bytes; equal counts are accepted whatever the nesting.
C17_ImbalanceIffCountsDiffer ==
    /\ err = "ErrCodeBracketImbalance" <=> CountOf(input, chOpen) # CountOf(input, chClose)
    /\ err = "ErrCodeBracketImbalance" => status = "rejected" /\ memory = <<>>
    /\ err = "nil" <=> status # "rejected"

\* "][" has been accepted and has run to its end
C17_Witness ==
    /\ input = <<chClose, chOpen>> /\ err = "nil" /\ status = "halted"
    /\ DOMAIN memory = 0..(2 + Pad + TapeSize - 1)

\* ------------------------------------------------------------------ C18
\* the bytes of text that are one of the eight control characters
ControlBytes(text) == SelectSeq(text, LAMBDA b : b \in {62, 60, 43, 45, 91, 93, 46, 44})

\* texts with the control bytes of text: text without its other bytes, text
\* with a space put in at the front, the middle or the end, and the test inputs
Respelled(text) ==
    {ControlBytes(text)}
    \cup {SubSeq(text, 1, k) \o <<32>> \o SubSeq(text, k + 1, Len(text)) :
            k \in {0, Len(text) \div 2, Len(text)}}
    \cup TestInputs

\* NewProgram has succeeded and Run has not started
JustLoaded == err = "nil" /\ status = "idle"

\* C18: after NewProgram succeeds on input s the code segment holds the
\* control bytes of s in their order, then 10 zero bytes; the data segment
\* is all zero cells (30,000 of them; TapeSize here); pc is 0, the pointer is
\* on the first data cell, every register is 0; inputs that differ only in
\* other bytes load to the same state.
C18_LoadedState ==
    JustLoaded =>
        LET kept == ControlBytes(input)
        IN  /\ dataStart = Len(kept) + 10
            /\ DOMAIN memory = 0..(dataStart + TapeSize - 1)
            /\ \A i \in 0..(Len(kept) - 1) : memory[i] = kept[i + 1]
            /\ \A i \in Len(kept)..(dataStart + TapeSize - 1) : memory[i] = 0
            /\ pc = 0 /\ memPtr = dataStart
            /\ regs = <<0, 0, 0, 0, 0, 0>>
            /\ \A other \in Respelled(input) :
                  ControlBytes(other) = kept =>
                      /\ ValidateBrainfuck(other) = "nil"
                      /\ NewMemory(FilterCode(other)) = memory
                      /\ Len(FilterCode(other)) + Pad = dataStart

\* "add 5 +++++" has been loaded: five '+', ten zero bytes, the zero tape
C18_Witness ==
    /\ input = TestAdd5 /\ JustLoaded
    /\ dataStart = 15 /\ memPtr = 15 /\ pc = 0
    /\ [i \in 0..4 |-> memory[i]] = [i \in 0..4 |-> chPlus]
    /\ memory[5] = 0

\* ------------------------------------------------------------------ C19
\* asm uses only inc, dec, clear, call, while/endwhile and if/else/endif,
\* every construct matched, and generation succeeded
C19_Program ==
    /\ asm # <<>>
    /\ \A i \in 1..Len(asm) :
          NamedIn(asm, i, {"inc", "dec", "clear", "call", "while", "endwhile",
                           "if", "else", "endif"})
    /\ \A i \in 1..Len(asm) : NamedIn(asm, i, {"endwhile"}) => asm[i].dst = NoExpr
    /\ ~Unmatched(asm)
    /\ phase = "generated" /\ ~gen.failed /\ input = gen.sb

\* C19: when the VM has run the generated text of such a program from a
\* fresh tape and halted, the pointer's offset from the first data cell is
\* the generator's final cursor, whichever branches were taken.
C19_PointerEqualsCursor ==
    (C19_Program /\ status = "halted") => memPtr - dataStart = gen.ptr

\* ------------------------------------------------------------------ C21
\* the kinds of the constructs open after statements i..k of stmts, innermost
\* last ("else" for an if whose else has been seen); <<"bad">> once a closing
\* statement met no construct of its kind
RECURSIVE OpenKinds(_, _, _)
OpenKinds(stmts, i, k) ==
    IF k < i THEN <<>>
    ELSE LET s == OpenKinds(stmts, i, k - 1)
             top == IF s = <<>> THEN "none" ELSE s[Len(s)]
             rest == SubSeq(s, 1, Len(s) - 1)
         IN  CASE s = <<"bad">> -> s
               [] NamedIn(stmts, k, {"while"}) -> Append(s, "while")
               [] NamedIn(stmts, k, {"if"}) -> Append(s, "if")
               [] NamedIn(stmts, k, {"endwhile"}) ->
                     IF top = "while" THEN rest ELSE <<"bad">>
               [] NamedIn(stmts, k, {"else"}) ->
                     IF top = "if" THEN Append(rest, "else") ELSE <<"bad">>
               [] NamedIn(stmts, k, {"endif"}) ->
                     IF top \in {"if", "else"} THEN rest ELSE <<"bad">>
               [] OTHER -> s

\* statements i..k are one properly nested construct: opened at i, closed
\* at k by the statement of its kind, the body balanced
WholeConstruct(stmts, i, k) ==
    /\ i < k
    /\ OpenKinds(stmts, i, k) = <<>>
    /\ \A m \in i..(k - 1) : OpenKinds(stmts, i, m) \notin {<<>>, <<"bad">>}

\* C21: after the closing statement of a properly nested while..endwhile
\* (with or without operand) or if..[else]..endif the loop-stack is, in
\* depth and contents, what it was before the opening statement; while
\* pushes one entry and endwhile pops one, if pushes (condAddr, junkAddr),
\* else pops that pair and pushes it again, endif pops the pair.
C21_StackRestored ==
    /\ [][(GenerateStmt /\ ~gen'.failed /\ asm[line + 1].kind = "instr") =>
            LET stmt == asm[line + 1]
                before == gen.loopStarts
                after == gen'.loopStarts
            IN  CASE stmt.name = "while" ->
                        after = before \o <<ValueIn(stmt.dst.e, gen.labelTable)>>
                  [] stmt.name = "endwhile" ->
                        Len(before) >= 1 /\ after = SubSeq(before, 1, Len(before) - 1)
                  [] stmt.name = "if" ->
                        after = before \o <<ValueIn(stmt.dst.e, gen.labelTable),
                                            ValueIn(stmt.src.e, gen.labelTable)>>
                  [] stmt.name = "else" -> Len(before) >= 2 /\ after = before
                  [] stmt.name = "endif" ->
                        Len(before) >= 2 /\ after = SubSeq(before, 1, Len(before) - 2)
                  [] OTHER -> after = before]_vars
    /\ [][(GenerateStmt /\ ~gen'.failed) =>
            \A i \in 1..line :
                WholeConstruct(asm, i, line + 1) =>
                    gen'.loopStarts = GenAfter(asm, i - 1).loopStarts]_vars

\* `while [1]` inside the true branch of `if [0], [2]`: the endif has left
\* the stack empty again
C21_Witness ==
    /\ asm = <<If(0, 2), StmtInstr("while", At(1), NoExpr),
               StmtInstr("endwhile", NoExpr, NoExpr), Else, EndIf>>
    /\ line = 5 /\ ~gen.failed /\ gen.loopStarts = <<>>
    /\ WholeConstruct(asm, 1, 5) /\ WholeConstruct(asm, 2, 3)

\* ------------------------------------------------------------------ C22
\* The ordinary rules of Run applied to a memory value mem with the pointer
\* held at memPtr: the scans of JumpToCloseLoop and JumpToOpenLoop and the
\* end of a run of one byte, as in the VM but reading mem.
RECURSIVE LitCloseScan(_, _, _)
LitCloseScan(mem, i, depth) ==
    IF i >= MemLen THEN MemLen
    ELSE IF mem[i] = 0 THEN i
    ELSE IF mem[i] = chOpen THEN LitCloseScan(mem, i + 1, depth + 1)
    ELSE IF mem[i] = chClose
         THEN IF depth - 1 <= 0 THEN i ELSE LitCloseScan(mem, i + 1, depth - 1)
    ELSE LitCloseScan(mem, i + 1, depth)

RECURSIVE LitOpenScan(_, _, _)
LitOpenScan(mem, i, depth) ==
    LET back(d) == IF i - 1 < 0 THEN 0 ELSE LitOpenScan(mem, i - 1, d)
    IN  IF mem[i] = 0 THEN i
        ELSE IF mem[i] = chClose THEN back(depth + 1)
        ELSE IF mem[i] = chOpen
             THEN IF depth - 1 <= 0 THEN i ELSE back(depth - 1)
        ELSE back(depth)

LitRunEnd(mem, i, ch) ==
    CHOOSE j \in i..MemLen :
        /\ j = MemLen \/ mem[j] # ch
        /\ \A x \in i..(j - 1) : mem[x] = ch

\* One instruction of the literal execution of the three bytes at p0..p0+2,
\* without the special case: st is "run" while it goes on, "done" once the
\* next byte to execute is p0 + 3, "halted" on a zero byte, "panic" on an
\* index out of range, "escaped" when execution leaves the three bytes
\* another way or one of them has become a byte that moves the pointer,
\* increments or invokes.
LitStep(s, p0) ==
    IF s.st # "run" THEN s
    ELSE IF s.pc = p0 + 3 THEN [s EXCEPT !.st = "done"]
    ELSE IF s.pc < p0 \/ s.pc > p0 + 3 THEN [s EXCEPT !.st = "escaped"]
    ELSE LET b == s.mem[s.pc]
             cell == s.mem[memPtr]
             goto(at) == IF at >= MemLen THEN [s EXCEPT !.st = "panic"]
                         ELSE [s EXCEPT !.pc = at]
         IN  CASE b = 0 -> [s EXCEPT !.st = "halted"]
               [] b = chOpen ->
                     IF cell = 0 THEN goto(LitCloseScan(s.mem, s.pc, 0) + 1)
                     ELSE goto(s.pc + 1)
               [] b = chClose ->
                     IF cell # 0 THEN goto(LitOpenScan(s.mem, s.pc, 0) + 1)
                     ELSE goto(s.pc + 1)
               [] b = chMinus ->
                     LET e == LitRunEnd(s.mem, s.pc, chMinus)
                     IN  IF e >= MemLen THEN [s EXCEPT !.st = "panic"]
                         ELSE [s EXCEPT
                                 !.mem = SetByte(s.mem, memPtr,
                                            ToByte(SubRolling(cell, e - s.pc, RollMax))),
                                 !.pc = e]
               [] b \in {chPlus, chRight, chLeft, chDot} -> [s EXCEPT !.st = "escaped"]
               [] OTHER -> goto(s.pc + 1)

\* k instructions of the literal execution, or fewer when it ends earlier
RECURSIVE LitRun(_, _, _)
LitRun(s, p0, k) ==
    IF s.st # "run" \/ k = 0 THEN s
    ELSE IF k = 1 THEN LitStep(s, p0)
    ELSE LitRun(LitRun(s, p0, k \div 2), p0, k - (k \div 2))

\* the literal execution of the idiom at p0 from memory mem, to its end:
\* 255 passes of three instructions at most, and the step that sees it done
Literally(mem, p0) == LitStep(LitRun([mem |-> mem, pc |-> p0, st |-> "run"], p0, 4 * 256), p0)

\* C22: for every value 0..255 of the current cell, the special case for
\* the clear idiom leaves the whole memory, the pointer, the registers and
\* the next byte to execute as the literal execution of loop-open,
\* decrement, loop-close by the ordinary rules does: the cell is zero and
\* execution continues just past the idiom.
C22_ClearIdiomAsLiteral ==
    /\ [][(StepOpen /\ IsClearIdiom(pc) /\ status' = "running") =>
            LET lit == Literally(memory, pc)
            IN  /\ lit.st = "done"
                /\ lit.mem = memory'
                /\ lit.pc = pc'
                /\ pc' = pc + 3
                /\ memPtr' = memPtr /\ regs' = regs
                /\ memory'[memPtr] = 0]_vars
    /\ [][(StepOpen /\ IsClearIdiom(pc) /\ status' = "running" /\ Len(input) <= MaxLen) =>
            \A v \in 0..255 :
                Literally(SetByte(memory, memPtr, v), pc) =
                    [mem |-> memory', pc |-> pc', st |-> "done"]]_vars

\* ------------------------------------------------------------------ C23
\* the identifier operands of the statement about to be generated: the
\* inside of an address, or a count
IdOperands(stmt) ==
    {e \in {stmt.dst, stmt.src} : e.t = "id"}
    \cup {e.e : e \in {x \in {stmt.dst, stmt.src} : x.t = "addr" /\ x.e.t = "id"}}

\* C23: evaluating an identifier operand always terminates, whatever table
\* label/const statements have built: it gives the integer the identifier's
\* binding resolves to, through a chain of identifier-valued bindings if
\* there is one, or fails with 'not defined' when the identifier or a name
\* of its chain is not bound.
C23_IdentifierEvaluation ==
    [][(GenerateStmt /\ asm[line + 1].kind = "instr"
            /\ asm[line + 1].name \in {"inc", "dec", "while", "call", "read", "clear", "if"}) =>
        \A e \in IdOperands(asm[line + 1]) :
            LET r == EvalInt(e, gen.labelTable)
                end == Follow(e, gen.labelTable, Cardinality(DOMAIN gen.labelTable) + 1)
            IN  /\ r.err # "stack overflow"
                /\ IF end.t = "int"
                   THEN ~r.fail /\ r.v = end.v
                   ELSE /\ r.fail /\ r.err = "not defined"
                        /\ end.t = "id" /\ end.name \notin DOMAIN gen.labelTable
                        /\ gen'.failed]_vars

\* ------------------------------------------------------------------ C24
\* the Ops the running tick has removed so far (`for range limit` has
\* `remaining` turns left)
RemovedThisTick == TickLimit - remaining

\* C24: a consumer tick removes at most `limit` Ops (60; TickLimit here),
\* stops as soon as it finds the queue empty, and never blocks waiting for
\* the VM, whatever the VM is doing; a tick on an empty queue returns
\* without removing anything.
C24_TickIsBoundedAndNonBlocking ==
    /\ [](RemovedThisTick \in 0..TickLimit)
    /\ [][UpdateBegin => RemovedThisTick' = 0]_vars
    /\ [][received' # received =>
            /\ remaining > 0 /\ opChan # <<>>
            /\ received' = Append(received, Head(opChan))
            /\ RemovedThisTick' = RemovedThisTick + 1]_vars
    /\ [][(remaining > 0 /\ opChan = <<>> /\ remaining' # remaining) =>
            /\ remaining' = 0
            /\ UNCHANGED <<received, opChan, sending, status>>]_vars
    /\ [](remaining > 0 =>
            IF opChan = <<>>
            THEN ENABLED (UpdateBreak /\ remaining' = 0)
            ELSE ENABLED (UpdateRecv /\ remaining' = remaining - 1))
    /\ []((didInit /\ remaining = 0 /\ err = "nil") => ENABLED UpdateBegin)

\* a tick has ended at its limit with an Op still queued
C24_Witness ==
    /\ didInit /\ remaining = 0
    /\ Len(received) = TickLimit /\ opChan # <<>>

\* a tick found the queue empty while the VM was still running, and ended
\* having removed nothing
C24_WitnessEmpty ==
    /\ didInit /\ remaining = 0 /\ status = "running"
    /\ received = <<>> /\ opChan = <<>> /\ invoked = <<>>

\* ------------------------------------------------------------------ C25
\* the run of ch that starts at pc has n bytes and a run of exactly n bytes
\* of `then` follows it
RunThenRun(ch, then) ==
    LET e == RunEnd(pc, ch)
    IN  e < MemLen /\ RunEnd(e, then) - e = e - pc

\* input is n bytes of ch followed by n bytes of `then`
IsRunPair(ch, then) ==
    \E n \in 1..(Len(input) \div 2) : input = Rep(ch, n) \o Rep(then, n)

\* C25: on a tape cell holding v, a run of n decrements followed by a run of
\* n increments, and a run of n increments followed by a run of n
\* decrements, leave v again (n in 1..255); n decrements of a zero cell
\* leave 256 - n.
C25_RunsUndoEachOther ==
    /\ [][(StepDec /\ status' = "running" /\ memPtr >= dataStart) =>
            LET n == RunLength(chMinus)
            IN  /\ (Cell = 0 /\ n <= 255) => memory'[memPtr] = 256 - n
                /\ (RunThenRun(chMinus, chPlus) /\ n <= 255) =>
                      ToByte(AddRolling(memory'[memPtr], n, RollMax)) = Cell]_vars
    /\ [][(StepInc /\ status' = "running" /\ memPtr >= dataStart) =>
            LET n == RunLength(chPlus)
            IN  (RunThenRun(chPlus, chMinus) /\ n <= 255) =>
                    ToByte(SubRolling(memory'[memPtr], n, RollMax)) = Cell]_vars
    /\ []((status = "halted" /\ (IsRunPair(chMinus, chPlus) \/ IsRunPair(chPlus, chMinus)))
            => memory[dataStart] = 0)

\* ------------------------------------------------------------------ C26
\* as many loop-opens as loop-closes, and no prefix with more closes
ProperlyNested(text) ==
    /\ CountOf(text, chOpen) = CountOf(text, chClose)
    /\ \A k \in 1..Len(text) :
          CountOf(SubSeq(text, 1, k), chOpen) >= CountOf(SubSeq(text, 1, k), chClose)

\* C26: when generation succeeds and ends with an empty loop-stack the text
\* has as many loop-open as loop-close markers, properly nested, and passes
\* the load-time bracket check, also when a construct is closed by the
\* closing statement of another kind.
C26_GeneratedTextBalanced ==
    (phase = "generated" /\ asm # <<>> /\ ~gen.failed /\ gen.loopStarts = <<>>) =>
        /\ input = gen.sb
        /\ ProperlyNested(input)
        /\ ValidateBrainfuck(input) = "nil"

\* ------------------------------------------------------------------ C27
\* the bytes below the data segment are the control bytes of the input
\* followed by zeros, as NewProgram left them
CodeAsLoaded ==
    LET kept == ControlBytes(input)
    IN  \A i \in 0..(dataStart - 1) :
            memory[i] = IF i < Len(kept) THEN kept[i + 1] ELSE 0

\* C27: no execution step writes a byte of the code segment: the writes of
\* an increment run, a decrement run, the clear idiom and a register load
\* land in the data segment, so program text and padding are in every
\* reachable state as they were right after loading.
C27_CodeNeverWritten ==
    /\ [](err = "nil" => CodeAsLoaded)
    /\ [][memory' # memory =>
            /\ DOMAIN memory' = DOMAIN memory
            /\ \A i \in DOMAIN memory : memory'[i] # memory[i] => i >= dataStart]_vars

====
